---- MODULE Spec2Model ----
(***************************************************************************)
(* LC-3 simulator (src/lc3/sim.c): the machine state, the memory-mapped    *)
(* keyboard registers, the fetch-decode-execute loop of main, the fifteen  *)
(* instruction handlers and the trap handlers.                             *)
(*                                                                         *)
(* uint16_t values are integers 0..65535; every assignment to a uint16_t   *)
(* reduces modulo 65536.  The memory array is kept sparse: a word that is  *)
(* not in the domain of the function is the zero the C runtime put there.  *)
(***************************************************************************)
EXTENDS Integers, Sequences, FiniteSets, TLC

----------------------------------------------------------------------------
(* Program constants *)

\* number of values of a uint16_t
UINT16_MOD == 65536

R_R0 == 0
R_R7 == 7
R_PC == 8
R_COND == 9
R_COUNT == 10

FL_POS == 1
FL_ZRO == 2
FL_NEG == 4

OP_BR == 0
OP_ADD == 1
OP_LD == 2
OP_ST == 3
OP_JSR == 4
OP_AND == 5
OP_LDR == 6
OP_STR == 7
OP_RTI == 8
OP_NOT == 9
OP_LDI == 10
OP_STI == 11
OP_JMP == 12
OP_RES == 13
OP_LEA == 14
OP_TRAP == 15

MR_KBSR == 65024
MR_KBDR == 65026

TRAP_GETC == 32
TRAP_OUT == 33
TRAP_PUTS == 34
TRAP_IN == 35
TRAP_PUTSP == 36
TRAP_HALT == 37

\* the length of the array `memory`: indices 0 .. MEMORY_MAX - 1 exist
MEMORY_MAX == 65535

PC_START == 12288

\* what getchar returns at end of input
EOF == -1

\* console output that is not a single program character, as negative codes
PROMPT_TEXT == -2
HALT_TEXT == -3
NEWLINE_TEXT == -4

----------------------------------------------------------------------------
(* Bounds of the model *)

\* instructions executed in one run
MaxSteps == 4
\* freely chosen instruction words of the image, after its opening sequence
ProgLen == 1
\* nonzero words a string traversal may meet behind the end of the array
MaxOob == 1

----------------------------------------------------------------------------
(* C integer operators on non-negative integers *)

RECURSIVE BitAnd(_, _)
BitAnd(x, y) ==
    IF x = 0 \/ y = 0 THEN 0
    ELSE (x % 2) * (y % 2) + 2 * BitAnd(x \div 2, y \div 2)

RECURSIVE BitOr(_, _)
BitOr(x, y) ==
    IF x = 0 THEN y
    ELSE IF y = 0 THEN x
    ELSE (IF x % 2 = 1 \/ y % 2 = 1 THEN 1 ELSE 0) + 2 * BitOr(x \div 2, y \div 2)

Shr(x, n) == x \div (2 ^ n)
Shl(x, n) == x * (2 ^ n)

\* conversion of an int to uint16_t
U16(x) == x % UINT16_MOD

\* conversion of an int to char, for either signedness of char
CharValues(x) == { x % 256, ((x + 128) % 256) - 128 }

----------------------------------------------------------------------------
(* The memory array *)

\* memory[i] for an index inside the array
MemGet(mem, i) == IF i \in DOMAIN mem THEN mem[i] ELSE 0

\* memory[i] = v for an index inside the array
MemSet(mem, i, v) ==
    IF v = 0
    THEN [a \in (DOMAIN mem) \ {i} |-> mem[a]]
    ELSE [a \in (DOMAIN mem) \cup {i} |-> IF a = i THEN v ELSE mem[a]]

----------------------------------------------------------------------------
(* State *)

VARIABLES
    memory,     \* uint16_t memory[MEMORY_MAX], sparse
    registers,  \* uint16_t registers[R_COUNT]
    running,    \* int running of main
    proc,       \* the process: "loop", "exited" (main returned 0), "aborted"
    stdout,     \* what was written to the console, oldest first
    nread,      \* number of characters taken from the console input
    steps,      \* iterations of the loop of main so far
    instr,      \* uint16_t instr of main: the word of the latest fetch
    reads,      \* the mem_read calls of the latest iteration: <<address, value>>
    writes,     \* the mem_write calls of the latest iteration: <<address, value>>
    walk,       \* the array indices the latest PUTS or PUTSP dereferenced
    seen,       \* the words it found at these indices
    behind,     \* the storage right behind the array, at memory + MEMORY_MAX
    staged,     \* <<c>> when the latest keyboard poll stored c in the data word
    kstored,    \* a mem_write went to the keyboard-data address since that poll
    tty,        \* the mode of the terminal on standard input
    tty_start,  \* the mode the terminal had when the program started
    original_tio, \* struct termios original_tio
    sigint,     \* the disposition of SIGINT
    atexits,    \* the functions registered with atexit, oldest first
    status,     \* how the process ended
    arg,        \* the arguments of a function applied on its own
    ret         \* <<its result>> once it was applied

vars == <<memory, registers, running, proc, stdout, nread, steps, instr,
          reads, writes, walk, seen, behind, staged, kstored,
          tty, tty_start, original_tio, sigint, atexits, status, arg, ret>>

\* The state as one value, threaded through the calls of one iteration.
Cur ==
    [mem |-> memory, reg |-> registers, run |-> running, proc |-> proc,
     out |-> stdout, nread |-> nread, reads |-> <<>>, writes |-> <<>>,
     walk |-> <<>>, seen |-> <<>>, behind |-> behind, staged |-> staged, kstored |-> kstored]

----------------------------------------------------------------------------
(* The console *)

\* what one getchar call can return
GetcharResults == {0, 65, 200, EOF}

\* what check_key can return
CheckKeyResults == {TRUE, FALSE}

\* what a word behind the last element of memory can hold when the loop
\* starts
OobWords == {0, 65, 61477}

----------------------------------------------------------------------------
(* The terminal *)

\* A struct termios: the two flags the program clears, and the rest of it,
\* which is the user's setting or that of a structure of zero bytes.
UserModes == [icanon : BOOLEAN, echo : BOOLEAN, rest : {"user"}]

\* original_tio before tcgetattr: an object of static storage, all zero
ZeroTermios == [icanon |-> FALSE, echo |-> FALSE, rest |-> "zero"]

\* new_tio.c_lflag &= ~ICANON & ~ECHO
NoBuffering(tio) == [tio EXCEPT !.icanon = FALSE, !.echo = FALSE]

\* tcsetattr(STDIN_FILENO, TCSANOW, &original_tio): the mode of the terminal
\* after it
restore_input_buffering(saved) == saved

\* exit() calls the functions registered with atexit: the mode after them
exit_handlers(fns, saved, mode) ==
    IF fns = <<>> THEN mode ELSE restore_input_buffering(saved)

Alive == [how |-> "running", code |-> 0]
Exited(code) == [how |-> "exit", code |-> code % 256]
Signalled == [how |-> "SIGABRT", code |-> 0]

----------------------------------------------------------------------------
(* sign_extend, update_flags *)

\* sign_extend that returns its argument
sign_extend_none(x, bit_count) == x

sign_extend(x, bit_count) ==
    IF BitAnd(Shr(x, bit_count - 1), 1) = 1
    THEN U16(BitOr(x, Shl(65535, bit_count)))
    ELSE x

\* update_flags with the sign test on the whole value instead of bit 15
update_flags_unsigned(reg, r) ==
    IF reg[r] = 0 THEN [reg EXCEPT ![R_COND] = FL_ZRO]
    ELSE IF reg[r] < 0 THEN [reg EXCEPT ![R_COND] = FL_NEG]
    ELSE [reg EXCEPT ![R_COND] = FL_POS]

\* update_flags that ORs the new flag into the condition register
update_flags_or(reg, r) ==
    LET f == IF reg[r] = 0 THEN FL_ZRO
             ELSE IF Shr(reg[r], 15) # 0 THEN FL_NEG ELSE FL_POS
    IN  [reg EXCEPT ![R_COND] = BitOr(@, f)]

update_flags(reg, r) ==
    IF reg[r] = 0 THEN [reg EXCEPT ![R_COND] = FL_ZRO]
    ELSE IF Shr(reg[r], 15) # 0 THEN [reg EXCEPT ![R_COND] = FL_NEG]
    ELSE [reg EXCEPT ![R_COND] = FL_POS]

----------------------------------------------------------------------------
(* mem_write, mem_read *)

\* The array has MEMORY_MAX elements, so memory[MEMORY_MAX] is not one of
\* them: the access goes to whatever the build laid out behind the array.
\* That is a word of its own (padding, or an object the loop does not use)
\* with a content not known beforehand, or it is registers[0], when
\* registers follows memory directly.  Which of the two is settled by the
\* build, so the first access fixes it for the run:
\*   behind.kind = "unknown"  not accessed so far
\*   behind.kind = "cell"     a word of its own, holding behind.val
\*   behind.kind = "r0"       registers[0]
BehindLayouts(s) ==
    IF s.behind.kind # "unknown" THEN { s }
    ELSE { [s EXCEPT !.behind = [kind |-> "cell", val |-> v]] : v \in OobWords }
         \cup { [s EXCEPT !.behind = [kind |-> "r0", val |-> 0]] }

\* the word at memory + MEMORY_MAX, once the layout is fixed
BehindWord(s) ==
    IF s.behind.kind = "r0" THEN s.reg[R_R0] ELSE s.behind.val

\* memory[address] = val
mem_write(s, address, val) ==
    LET t == [s EXCEPT !.writes = Append(@, <<address, val>>),
                       !.kstored = @ \/ (address = MR_KBDR)]
    IN  IF address < MEMORY_MAX
        THEN { [t EXCEPT !.mem = MemSet(@, address, val)] }
        ELSE { IF u.behind.kind = "r0"
               THEN [u EXCEPT !.reg[R_R0] = val]
               ELSE [u EXCEPT !.behind.val = val]
               : u \in BehindLayouts(t) }

\* the poll that sets the status word and leaves the data word as it is
KbPoll_no_data(s) ==
    { [s EXCEPT !.mem = MemSet(@, MR_KBSR, Shl(1, 15)),
                !.nread = @ + 1,
                !.staged = <<U16(c)>>,
                !.kstored = FALSE] : c \in GetcharResults }

\* The keyboard poll of mem_read.
KbPoll(s) ==
    { [s EXCEPT !.mem = MemSet(MemSet(@, MR_KBSR, Shl(1, 15)), MR_KBDR, U16(c)),
                !.nread = @ + 1,
                !.staged = <<U16(c)>>,
                !.kstored = FALSE] : c \in GetcharResults }

KbNoKey(s) ==
    [s EXCEPT !.mem = MemSet(@, MR_KBSR, 0), !.staged = <<>>]

\* return memory[address]: the outcomes [s |-> state, val |-> word]
MemLoad(s, address) ==
    IF address < MEMORY_MAX
    THEN { [s |-> s, val |-> MemGet(s.mem, address)] }
    ELSE { [s |-> u, val |-> BehindWord(u)] : u \in BehindLayouts(s) }

\* mem_read that polls the keyboard for the data address as well
mem_read_poll_data(s, address) ==
    LET polled ==
            IF address = MR_KBSR \/ address = MR_KBDR
            THEN UNION { IF k THEN KbPoll(s) ELSE {KbNoKey(s)} : k \in CheckKeyResults }
            ELSE {s}
    IN  UNION { { [s |-> [l.s EXCEPT !.reads = Append(@, <<address, l.val>>)],
                   val |-> l.val] : l \in MemLoad(t, address) } : t \in polled }

\* The set of outcomes [s |-> state after the call, val |-> returned word].
mem_read(s, address) ==
    LET polled ==
            IF address = MR_KBSR
            THEN UNION { IF k THEN KbPoll(s) ELSE {KbNoKey(s)} : k \in CheckKeyResults }
            ELSE {s}
    IN  UNION { { [s |-> [l.s EXCEPT !.reads = Append(@, <<address, l.val>>)],
                   val |-> l.val] : l \in MemLoad(t, address) } : t \in polled }

----------------------------------------------------------------------------
(* Instruction fields *)

Opcode(i) == Shr(i, 12)
FieldDR(i) == BitAnd(Shr(i, 9), 7)
FieldSR1(i) == BitAnd(Shr(i, 6), 7)
FieldSR2(i) == BitAnd(i, 7)
ImmFlag(i) == BitAnd(Shr(i, 5), 1)
LongFlag(i) == BitAnd(Shr(i, 11), 1)
TrapVect(i) == BitAnd(i, 255)

\* the offset taken from the address of the instruction itself
PcRel_from_instr(reg, i, width) ==
    U16(reg[R_PC] - 1 + sign_extend(BitAnd(i, 2 ^ width - 1), width))

\* registers[R_PC] + pc_offset, stored in a uint16_t
PcRel(reg, i, width) == U16(reg[R_PC] + sign_extend(BitAnd(i, 2 ^ width - 1), width))

\* registers[sr1] + offset, stored in a uint16_t
BaseRel(reg, i) == U16(reg[FieldSR1(i)] + sign_extend(BitAnd(i, 63), 6))

----------------------------------------------------------------------------
(* The instruction handlers: each gives the set of states it can leave *)

\* ADD that takes imm5 for a number without sign
cmd_add_unsigned_imm(s, i) ==
    LET dr == FieldDR(i)
        sr1 == FieldSR1(i)
        val == IF ImmFlag(i) # 0
               THEN U16(s.reg[sr1] + BitAnd(i, 31))
               ELSE U16(s.reg[sr1] + s.reg[FieldSR2(i)])
    IN  { [s EXCEPT !.reg = update_flags([@ EXCEPT ![dr] = val], dr)] }

cmd_add(s, i) ==
    LET dr == FieldDR(i)
        sr1 == FieldSR1(i)
        val == IF ImmFlag(i) # 0
               THEN U16(s.reg[sr1] + sign_extend(BitAnd(i, 31), 5))
               ELSE U16(s.reg[sr1] + s.reg[FieldSR2(i)])
    IN  { [s EXCEPT !.reg = update_flags([@ EXCEPT ![dr] = val], dr)] }

cmd_and(s, i) ==
    LET dr == FieldDR(i)
        sr1 == FieldSR1(i)
        val == IF ImmFlag(i) # 0
               THEN BitAnd(s.reg[sr1], sign_extend(BitAnd(i, 31), 5))
               ELSE BitAnd(s.reg[sr1], s.reg[FieldSR2(i)])
    IN  { [s EXCEPT !.reg = update_flags([@ EXCEPT ![dr] = val], dr)] }

cmd_not(s, i) ==
    LET dr == FieldDR(i)
        val == U16(-(s.reg[FieldSR1(i)]) - 1)
    IN  { [s EXCEPT !.reg = update_flags([@ EXCEPT ![dr] = val], dr)] }

\* a branch that looks at no flag
cmd_br_always(s, i) == { [s EXCEPT !.reg[R_PC] = PcRel(s.reg, i, 9)] }

cmd_br(s, i) ==
    LET cond_flag == BitAnd(Shr(i, 9), 7)
    IN  IF BitAnd(cond_flag, s.reg[R_COND]) # 0
        THEN { [s EXCEPT !.reg[R_PC] = PcRel(s.reg, i, 9)] }
        ELSE { s }

cmd_jmp(s, i) ==
    { [s EXCEPT !.reg[R_PC] = s.reg[FieldSR1(i)]] }

\* cmd_jsr that links after the transfer of control
cmd_jsr_late_link(s, i) ==
    LET moved == IF LongFlag(i) # 0
                 THEN [s.reg EXCEPT ![R_PC] = PcRel(s.reg, i, 11)]
                 ELSE [s.reg EXCEPT ![R_PC] = s.reg[FieldSR1(i)]]
    IN  { [s EXCEPT !.reg = [moved EXCEPT ![R_R7] = moved[R_PC]]] }

cmd_jsr(s, i) ==
    LET linked == [s.reg EXCEPT ![R_R7] = s.reg[R_PC]]
    IN  IF LongFlag(i) # 0
        THEN { [s EXCEPT !.reg = [linked EXCEPT ![R_PC] = PcRel(linked, i, 11)]] }
        ELSE { [s EXCEPT !.reg = [linked EXCEPT ![R_PC] = linked[FieldSR1(i)]]] }

cmd_ld(s, i) ==
    LET dr == FieldDR(i)
    IN  { [r.s EXCEPT !.reg = update_flags([@ EXCEPT ![dr] = r.val], dr)]
          : r \in mem_read(s, PcRel(s.reg, i, 9)) }

cmd_ldi(s, i) ==
    LET dr == FieldDR(i)
    IN  UNION { { [r2.s EXCEPT !.reg = update_flags([@ EXCEPT ![dr] = r2.val], dr)]
                  : r2 \in mem_read(r1.s, r1.val) }
                : r1 \in mem_read(s, PcRel(s.reg, i, 9)) }

cmd_ldr(s, i) ==
    LET dr == FieldDR(i)
    IN  { [r.s EXCEPT !.reg = update_flags([@ EXCEPT ![dr] = r.val], dr)]
          : r \in mem_read(s, BaseRel(s.reg, i)) }

cmd_lea(s, i) ==
    LET dr == FieldDR(i)
    IN  { [s EXCEPT !.reg = update_flags([@ EXCEPT ![dr] = PcRel(s.reg, i, 9)], dr)] }

\* ST that sets the flag from the register it stores
cmd_st_flags(s, i) ==
    { [t EXCEPT !.reg = update_flags(@, FieldDR(i))]
      : t \in mem_write(s, PcRel(s.reg, i, 9), s.reg[FieldDR(i)]) }

cmd_st(s, i) ==
    mem_write(s, PcRel(s.reg, i, 9), s.reg[FieldDR(i)])

cmd_sti(s, i) ==
    UNION { mem_write(r.s, r.val, r.s.reg[FieldDR(i)])
            : r \in mem_read(s, PcRel(s.reg, i, 9)) }

cmd_str(s, i) ==
    mem_write(s, BaseRel(s.reg, i), s.reg[FieldDR(i)])

----------------------------------------------------------------------------
(* The string traversals of TRAP PUTS and TRAP PUTSP *)

\* The loop `while (*c) { ...; ++c; }` inside the array, from index c: the
\* <<index, word>> pairs it dereferences, up to the zero word or to the last
\* element of the array.
RECURSIVE InArray(_, _)
InArray(mem, c) ==
    IF c >= MEMORY_MAX THEN <<>>
    ELSE IF MemGet(mem, c) = 0 THEN << <<c, 0>> >>
    ELSE << <<c, MemGet(mem, c)>> >> \o InArray(mem, c + 1)

\* The nonzero words the loop can meet in storage it knows nothing of,
\* before a zero word.
OobTails ==
    UNION { [1..k -> OobWords \ {0}] : k \in 0..MaxOob }

\* The words behind the array up to the first zero word, with that zero
\* word: the word at memory + MEMORY_MAX, then (when that word is
\* registers[0]) the other registers, then storage of unknown content.
RECURSIVE UpToZero(_)
UpToZero(w) ==
    IF w = <<>> THEN <<>>
    ELSE IF Head(w) = 0 THEN <<0>>
    ELSE <<Head(w)>> \o UpToZero(Tail(w))

BehindRuns(s) ==
    LET known == IF s.behind.kind = "r0"
                 THEN [k \in 1..R_COUNT |-> s.reg[k - 1]]
                 ELSE <<s.behind.val>>
        run == UpToZero(known)
    IN  IF run # <<>> /\ run[Len(run)] = 0
        THEN { run }
        ELSE { run \o t \o <<0>> : t \in OobTails }

\* uint16_t *c = memory + registers[R_R0]; while (*c) ++c;
\* The pointer is not reduced modulo the array length: the traversal that
\* finds no zero word up to index MEMORY_MAX - 1 goes on behind the array.
\* The outcomes [s |-> state, w |-> the <<index, word>> pairs dereferenced].
StrWalk(s, from) ==
    LET a == InArray(s.mem, from)
    IN  IF a # <<>> /\ a[Len(a)][2] = 0
        THEN { [s |-> s, w |-> a] }
        ELSE UNION { { [s |-> u,
                        w |-> a \o [j \in 1..Len(r) |-> <<MEMORY_MAX + j - 1, r[j]>>]]
                       : r \in BehindRuns(u) } : u \in BehindLayouts(s) }

RECURSIVE PutsChars(_)
PutsChars(w) ==
    IF w = <<>> \/ Head(w)[2] = 0 THEN <<>>
    ELSE <<Head(w)[2] % 256>> \o PutsChars(Tail(w))

\* PUTSP that writes both bytes of every word
RECURSIVE PutspChars_both(_)
PutspChars_both(w) ==
    IF w = <<>> \/ Head(w)[2] = 0 THEN <<>>
    ELSE <<BitAnd(Head(w)[2], 255), Shr(Head(w)[2], 8)>> \o PutspChars_both(Tail(w))

\* PUTSP that stops at the first zero byte, as a C string does
RECURSIVE PutspChars_cstring(_)
PutspChars_cstring(w) ==
    IF w = <<>> \/ BitAnd(Head(w)[2], 255) = 0 THEN <<>>
    ELSE IF Shr(Head(w)[2], 8) = 0 THEN <<BitAnd(Head(w)[2], 255)>>
    ELSE <<BitAnd(Head(w)[2], 255), Shr(Head(w)[2], 8)>> \o PutspChars_cstring(Tail(w))

RECURSIVE PutspChars(_)
PutspChars(w) ==
    IF w = <<>> \/ Head(w)[2] = 0 THEN <<>>
    ELSE LET char1 == BitAnd(Head(w)[2], 255)
             char2 == Shr(Head(w)[2], 8)
         IN  <<char1>> \o (IF char2 # 0 THEN <<char2>> ELSE <<>>) \o PutspChars(Tail(w))

Indices(w) == [j \in 1..Len(w) |-> w[j][1]]

Words(w) == [j \in 1..Len(w) |-> w[j][2]]

----------------------------------------------------------------------------
(* cmd_trap *)

\* a trap that saves no link
TrapLink_dropped(s) == s

TrapLink(s) == [s EXCEPT !.reg[R_R7] = s.reg[R_PC]]

trap_getc(s) ==
    { [s EXCEPT !.reg = update_flags([@ EXCEPT ![R_R0] = U16(c)], R_R0),
                !.nread = @ + 1] : c \in GetcharResults }

trap_out(s) ==
    { [s EXCEPT !.out = Append(@, s.reg[R_R0] % 256)] }

trap_puts(s) ==
    { [k.s EXCEPT !.out = @ \o PutsChars(k.w), !.walk = Indices(k.w),
             !.seen = Words(k.w)]
      : k \in StrWalk(s, s.reg[R_R0]) }

trap_in(s) ==
    UNION { { [s EXCEPT !.out = @ \o <<PROMPT_TEXT, c % 256>>,
                        !.reg = update_flags([@ EXCEPT ![R_R0] = U16(c)], R_R0),
                        !.nread = @ + 1] : c \in CharValues(g) }
            : g \in GetcharResults }

trap_putsp(s) ==
    { [k.s EXCEPT !.out = @ \o PutspChars(k.w), !.walk = Indices(k.w),
             !.seen = Words(k.w)]
      : k \in StrWalk(s, s.reg[R_R0]) }

\* TRAP HALT that prints its notice and leaves running as it is
trap_halt_norun(s) ==
    { [s EXCEPT !.out = Append(@, HALT_TEXT)] }

trap_halt(s) ==
    { [s EXCEPT !.out = Append(@, HALT_TEXT), !.run = 0] }

cmd_trap(s, i) ==
    LET t == TrapLink(s)
        v == TrapVect(i)
    IN  CASE v = TRAP_GETC -> trap_getc(t)
          [] v = TRAP_OUT -> trap_out(t)
          [] v = TRAP_PUTS -> trap_puts(t)
          [] v = TRAP_IN -> trap_in(t)
          [] v = TRAP_PUTSP -> trap_putsp(t)
          [] v = TRAP_HALT -> trap_halt(t)
          [] OTHER -> { t }

\* abort(): the process dies on the spot, main does not return
abort(s) == { [s EXCEPT !.proc = "aborted"] }

----------------------------------------------------------------------------
(* The loop of main *)

\* uint16_t instr = mem_read(registers[R_PC]++);
Fetch ==
    mem_read([Cur EXCEPT !.reg[R_PC] = U16(registers[R_PC] + 1)], registers[R_PC])

\* while (running): the loop is left when running is 0, and main returns 0
LoopExit(t) == IF t.run = 0 THEN "exited" ELSE t.proc

Commit(t, i) ==
    /\ memory' = t.mem
    /\ registers' = t.reg
    /\ running' = t.run
    /\ proc' = LoopExit(t)
    /\ stdout' = t.out
    /\ nread' = t.nread
    /\ steps' = steps + 1
    /\ instr' = i
    /\ reads' = t.reads
    /\ writes' = t.writes
    /\ walk' = t.walk
    /\ seen' = t.seen
    /\ behind' = t.behind
    /\ staged' = t.staged
    /\ kstored' = t.kstored
    /\ tty' = IF t.run = 0 THEN exit_handlers(atexits, original_tio, tty) ELSE tty
    /\ status' = IF t.run = 0 THEN Exited(0)
                 ELSE IF t.proc = "aborted" THEN Signalled ELSE status
    /\ UNCHANGED <<tty_start, original_tio, sigint, atexits, arg, ret>>

\* One iteration of while (running): the fetch, for the case of the switch
\* that opcode op selects.  The outcomes of the fetch, [s |-> state, val |->
\* fetched word].
Iteration(op) ==
    IF proc = "loop" /\ running # 0 /\ steps < MaxSteps
    THEN { f \in Fetch : Opcode(f.val) = op }
    ELSE {}

\* the illegal opcodes taken for instructions without effect
IllegalOp_ignored(s, i) == { s }

\* case OP_RES: case OP_RTI: default: abort();
IllegalOp(s, i) == abort(s)

DoAdd ==
    \E f \in Iteration(OP_ADD) : \E t \in cmd_add(f.s, f.val) : Commit(t, f.val)
DoAnd ==
    \E f \in Iteration(OP_AND) : \E t \in cmd_and(f.s, f.val) : Commit(t, f.val)
DoNot ==
    \E f \in Iteration(OP_NOT) : \E t \in cmd_not(f.s, f.val) : Commit(t, f.val)
DoBr ==
    \E f \in Iteration(OP_BR) : \E t \in cmd_br(f.s, f.val) : Commit(t, f.val)
DoJmp ==
    \E f \in Iteration(OP_JMP) : \E t \in cmd_jmp(f.s, f.val) : Commit(t, f.val)
DoJsr ==
    \E f \in Iteration(OP_JSR) : \E t \in cmd_jsr(f.s, f.val) : Commit(t, f.val)
DoLd ==
    \E f \in Iteration(OP_LD) : \E t \in cmd_ld(f.s, f.val) : Commit(t, f.val)
DoLdi ==
    \E f \in Iteration(OP_LDI) : \E t \in cmd_ldi(f.s, f.val) : Commit(t, f.val)
DoLdr ==
    \E f \in Iteration(OP_LDR) : \E t \in cmd_ldr(f.s, f.val) : Commit(t, f.val)
DoLea ==
    \E f \in Iteration(OP_LEA) : \E t \in cmd_lea(f.s, f.val) : Commit(t, f.val)
DoSt ==
    \E f \in Iteration(OP_ST) : \E t \in cmd_st(f.s, f.val) : Commit(t, f.val)
DoSti ==
    \E f \in Iteration(OP_STI) : \E t \in cmd_sti(f.s, f.val) : Commit(t, f.val)
DoStr ==
    \E f \in Iteration(OP_STR) : \E t \in cmd_str(f.s, f.val) : Commit(t, f.val)
DoTrap ==
    \E f \in Iteration(OP_TRAP) : \E t \in cmd_trap(f.s, f.val) : Commit(t, f.val)
DoRes ==
    \E f \in Iteration(OP_RES) : \E t \in IllegalOp(f.s, f.val) : Commit(t, f.val)
DoRti ==
    \E f \in Iteration(OP_RTI) : \E t \in IllegalOp(f.s, f.val) : Commit(t, f.val)

Next ==
    \/ DoAdd \/ DoAnd \/ DoNot \/ DoBr \/ DoJmp \/ DoJsr
    \/ DoLd \/ DoLdi \/ DoLdr \/ DoLea \/ DoSt \/ DoSti \/ DoStr
    \/ DoTrap \/ DoRes \/ DoRti

----------------------------------------------------------------------------
(* The images read_image loads before the loop starts *)

Enc(op, rest) == op * 4096 + rest
Imm(n, width) == n % (2 ^ width)

AddImm(dr, sr1, n) == Enc(OP_ADD, dr * 512 + sr1 * 64 + 32 + Imm(n, 5))
AddReg(dr, sr1, sr2) == Enc(OP_ADD, dr * 512 + sr1 * 64 + sr2)
AndImm(dr, sr1, n) == Enc(OP_AND, dr * 512 + sr1 * 64 + 32 + Imm(n, 5))
AndReg(dr, sr1, sr2) == Enc(OP_AND, dr * 512 + sr1 * 64 + sr2)
Not(dr, sr) == Enc(OP_NOT, dr * 512 + sr * 64 + 63)
Br(mask, n) == Enc(OP_BR, mask * 512 + Imm(n, 9))
Jmp(base) == Enc(OP_JMP, base * 64)
Jsr(n) == Enc(OP_JSR, 2048 + Imm(n, 11))
Jsrr(base) == Enc(OP_JSR, base * 64)
Ld(dr, n) == Enc(OP_LD, dr * 512 + Imm(n, 9))
Ldi(dr, n) == Enc(OP_LDI, dr * 512 + Imm(n, 9))
Ldr(dr, base, n) == Enc(OP_LDR, dr * 512 + base * 64 + Imm(n, 6))
Lea(dr, n) == Enc(OP_LEA, dr * 512 + Imm(n, 9))
St(sr, n) == Enc(OP_ST, sr * 512 + Imm(n, 9))
Sti(sr, n) == Enc(OP_STI, sr * 512 + Imm(n, 9))
Str(sr, base, n) == Enc(OP_STR, sr * 512 + base * 64 + Imm(n, 6))
Trap(v) == Enc(OP_TRAP, v)

\* The data image holds a pointer p in eight words from PtrArea on and
\* p + 2 in the eight words behind them, so that a PC-relative offset of 7
\* or of 15 in one of the first instructions meets p or p + 2.
PtrArea == PC_START + 8

Pointers == {MR_KBSR, UINT16_MOD - 3, 4 * 4096}

\* Two strings: one that ends with the array (no zero word behind it), and
\* at 0x4000 a word string "Hi", its zero word, and packed words.
Strings ==
    (UINT16_MOD - 3 :> 65) @@ (UINT16_MOD - 2 :> 66) @@
    (4 * 4096 :> 72) @@ (4 * 4096 + 1 :> 105) @@
    (4 * 4096 + 3 :> 26952) @@ (4 * 4096 + 4 :> 16896) @@ (4 * 4096 + 5 :> 33)

DataImage(p) ==
    [a \in PtrArea..(PtrArea + 15) |-> IF a < PtrArea + 8 THEN p ELSE U16(p + 2)]
    @@ Strings

\* The words the image can hold behind its opening sequence.
InstrWords ==
    { AddImm(1, 0, 1), AddImm(0, 0, -2), AddReg(2, 0, 0),
      AndImm(1, 0, -1), AndImm(0, 0, 0), AndReg(3, 0, 7),
      Not(1, 0),
      Br(7, -1), Br(2, 1), Br(4, 1), Br(1, 2),
      Jmp(0), Jmp(7),
      Jsr(2), Jsr(-2), Jsrr(0), Jsrr(7),
      Ld(0, 7), Ld(2, 15), Ldi(1, 7), Ldi(2, 15),
      Ldr(3, 0, 0), Ldr(3, 0, 2), Ldr(3, 0, -1),
      Lea(4, -1), Lea(4, -256),
      St(1, 7), St(0, 0), Sti(1, 7), Sti(1, 15),
      Str(1, 0, 0), Str(1, 0, 2),
      Trap(TRAP_GETC), Trap(TRAP_OUT), Trap(TRAP_PUTS), Trap(TRAP_IN),
      Trap(TRAP_PUTSP), Trap(TRAP_HALT), Trap(255),
      Enc(OP_RTI, 0), Enc(OP_RES, 0) }

\* The opening sequences of the image.
Openings ==
    { <<>>,
      <<Ld(0, 7)>>,
      <<Ld(0, 15)>>,
      <<Ldi(1, 7)>>,
      <<Ldi(1, 7), Sti(1, 15)>>,
      <<AddImm(0, 0, -1)>>,
      <<Ld(0, 15), AddImm(0, 0, 1)>>,
      <<Trap(TRAP_GETC)>> }

\* memory after the images are loaded: the code at PC_START, and the data
Image(code, p) ==
    LET placed == [a \in PC_START..(PC_START + Len(code) - 1) |-> code[a - PC_START + 1]]
        all == placed @@ DataImage(p)
    IN  [a \in {b \in DOMAIN all : all[b] # 0} |-> all[a]]

Images ==
    { Image(o \o f, p) : o \in Openings, f \in [1..ProgLen -> InstrWords], p \in Pointers }

\* The state when main enters its loop: the globals are zero but for what
\* the images loaded, the condition flag is FL_ZRO and the PC is PC_START.
Init ==
    /\ memory \in Images
    /\ registers = [r \in 0..(R_COUNT - 1) |->
                       IF r = R_COND THEN FL_ZRO
                       ELSE IF r = R_PC THEN PC_START ELSE 0]
    /\ running = 1
    /\ proc = "loop"
    /\ stdout = <<>>
    /\ nread = 0
    /\ steps = 0
    /\ instr = 0
    /\ reads = <<>>
    /\ writes = <<>>
    /\ walk = <<>>
    /\ seen = <<>>
    /\ behind = [kind |-> "unknown", val |-> 0]
    /\ staged = <<>>
    /\ kstored = FALSE
    /\ tty_start = [icanon |-> TRUE, echo |-> TRUE, rest |-> "user"]
    /\ tty = NoBuffering(tty_start)
    /\ original_tio = tty_start
    /\ sigint = "handle_interrupt"
    /\ atexits = <<"restore_input_buffering">>
    /\ status = Alive
    /\ arg = <<>>
    /\ ret = <<>>

Spec == Init /\ [][Next]_vars

----------------------------------------------------------------------------
(* main from the loading of the images on, with SIGINT *)

Machine == <<memory, registers, running, stdout, nread, steps, instr, reads,
             writes, walk, seen, behind, staged, kstored>>

\* signal(SIGINT, handle_interrupt);
InstallHandler ==
    /\ proc = "start"
    /\ sigint' = "handle_interrupt"
    /\ proc' = "installed"
    /\ UNCHANGED <<Machine, tty, tty_start, original_tio, atexits, status, arg, ret>>

\* disable_input_buffering: atexit(restore_input_buffering);
RegisterAtexit ==
    /\ proc = "installed"
    /\ atexits' = Append(atexits, "restore_input_buffering")
    /\ proc' = "registered"
    /\ UNCHANGED <<Machine, tty, tty_start, original_tio, sigint, status, arg, ret>>

\* disable_input_buffering: tcgetattr(STDIN_FILENO, &original_tio);
SaveMode ==
    /\ proc = "registered"
    /\ original_tio' = tty
    /\ proc' = "saved"
    /\ UNCHANGED <<Machine, tty, tty_start, sigint, atexits, status, arg, ret>>

\* disable_input_buffering: new_tio = original_tio without ICANON and ECHO;
\* tcsetattr(STDIN_FILENO, TCSANOW, &new_tio);
SetMode ==
    /\ proc = "saved"
    /\ tty' = NoBuffering(original_tio)
    /\ proc' = "raw"
    /\ UNCHANGED <<Machine, tty_start, original_tio, sigint, atexits, status, arg, ret>>

\* registers[R_COND] = FL_ZRO; registers[R_PC] = PC_START; int running = 1;
EnterLoop ==
    /\ proc = "raw"
    /\ registers' = [registers EXCEPT ![R_COND] = FL_ZRO, ![R_PC] = PC_START]
    /\ running' = 1
    /\ proc' = "loop"
    /\ UNCHANGED <<memory, stdout, nread, steps, instr, reads, writes, walk, seen,
                   behind, staged, kstored,
                   tty, tty_start, original_tio, sigint, atexits, status, arg, ret>>

\* SIGINT arrives while main runs and handle_interrupt is installed:
\* restore_input_buffering(); printf("\n"); exit(-2);
handle_interrupt ==
    /\ proc \in {"installed", "registered", "saved", "raw", "loop"}
    /\ sigint = "handle_interrupt"
    /\ tty' = exit_handlers(atexits, original_tio, restore_input_buffering(original_tio))
    /\ stdout' = Append(stdout, NEWLINE_TEXT)
    /\ status' = Exited(-2)
    /\ proc' = "interrupted"
    /\ UNCHANGED <<memory, registers, running, nread, steps, instr, reads, writes,
                   walk, seen, behind, staged, kstored,
                   tty_start, original_tio, sigint, atexits, arg, ret>>

\* the images of one instruction
StartImages == { Image(<<f>>, 4 * 4096) : f \in InstrWords }

\* The state when main has loaded the images: the globals are zero but for
\* what the images loaded, SIGINT has its default disposition and the
\* terminal is in one of the user's modes.
StartInit ==
    /\ memory \in StartImages
    /\ registers = [r \in 0..(R_COUNT - 1) |-> 0]
    /\ running = 0
    /\ proc = "start"
    /\ stdout = <<>>
    /\ nread = 0
    /\ steps = 0
    /\ instr = 0
    /\ reads = <<>>
    /\ writes = <<>>
    /\ walk = <<>>
    /\ seen = <<>>
    /\ behind = [kind |-> "unknown", val |-> 0]
    /\ staged = <<>>
    /\ kstored = FALSE
    /\ tty_start \in UserModes
    /\ tty = tty_start
    /\ original_tio = ZeroTermios
    /\ sigint = "SIG_DFL"
    /\ atexits = <<>>
    /\ status = Alive
    /\ arg = <<>>
    /\ ret = <<>>

StartNext ==
    \/ InstallHandler \/ RegisterAtexit \/ SaveMode \/ SetMode \/ EnterLoop
    \/ handle_interrupt
    \/ Next

StartSpec == StartInit /\ [][StartNext]_vars

----------------------------------------------------------------------------
(* The functions applied on their own *)

\* no program runs: the variables of the machine and of the process at rest
Detached ==
    /\ memory = <<>>
    /\ running = 0
    /\ proc = "function"
    /\ stdout = <<>>
    /\ nread = 0
    /\ steps = 0
    /\ instr = 0
    /\ reads = <<>>
    /\ writes = <<>>
    /\ walk = <<>>
    /\ seen = <<>>
    /\ behind = [kind |-> "unknown", val |-> 0]
    /\ staged = <<>>
    /\ kstored = FALSE
    /\ tty_start = [icanon |-> TRUE, echo |-> TRUE, rest |-> "user"]
    /\ tty = tty_start
    /\ original_tio = ZeroTermios
    /\ sigint = "SIG_DFL"
    /\ atexits = <<>>
    /\ status = Alive

\* the widths sign_extend is called with: imm5, offset6, offset9, offset11
Widths == {5, 6, 9, 11}

SignArgs ==
    UNION { { [x |-> x, bit_count |-> w] : x \in 0..(2 ^ w - 1) } : w \in Widths }

SignInit ==
    /\ Detached
    /\ registers = [r \in 0..(R_COUNT - 1) |-> 0]
    /\ arg \in SignArgs
    /\ ret = <<>>

ApplySignExtend ==
    /\ ret = <<>>
    /\ ret' = <<sign_extend(arg.x, arg.bit_count)>>
    /\ UNCHANGED <<Machine, proc, tty, tty_start, original_tio, sigint, atexits,
                   status, arg>>

SignSpec == SignInit /\ [][ApplySignExtend]_vars

\* The registers and values ADD and AND are applied to.
AluRegs == {0, 1, R_R7}
AluValues == {0, 1, 32767, 32768, 65535}

AluArgs == [op : {OP_ADD, OP_AND}, dr : AluRegs, sr1 : AluRegs, sr2 : AluRegs,
            imm5 : 0..31]

\* the register file before the instruction: sr2 holds imm5 read as a 5-bit
\* two's complement number, as a 16-bit word
AluInit ==
    /\ Detached
    /\ arg \in AluArgs
    /\ \E v \in AluValues :
           registers = [r \in 0..(R_COUNT - 1) |->
                           IF r = arg.sr2
                           THEN (IF arg.imm5 >= 16 THEN 65536 - 32 + arg.imm5 ELSE arg.imm5)
                           ELSE IF r = R_PC THEN PC_START
                           ELSE IF r = R_COND THEN FL_ZRO
                           ELSE v]
    /\ ret = <<>>

\* cmd_add on the immediate-mode word and on the register-mode word, from
\* the same state
ApplyAdd ==
    /\ ret = <<>>
    /\ arg.op = OP_ADD
    /\ \E a \in cmd_add(Cur, AddImm(arg.dr, arg.sr1, arg.imm5)) :
       \E b \in cmd_add(Cur, AddReg(arg.dr, arg.sr1, arg.sr2)) :
           ret' = <<[imm |-> a.reg, reg |-> b.reg]>>
    /\ UNCHANGED <<Machine, proc, tty, tty_start, original_tio, sigint, atexits,
                   status, arg>>

ApplyAnd ==
    /\ ret = <<>>
    /\ arg.op = OP_AND
    /\ \E a \in cmd_and(Cur, AndImm(arg.dr, arg.sr1, arg.imm5)) :
       \E b \in cmd_and(Cur, AndReg(arg.dr, arg.sr1, arg.sr2)) :
           ret' = <<[imm |-> a.reg, reg |-> b.reg]>>
    /\ UNCHANGED <<Machine, proc, tty, tty_start, original_tio, sigint, atexits,
                   status, arg>>

AluNext == ApplyAdd \/ ApplyAnd

AluSpec == AluInit /\ [][AluNext]_vars

----------------------------------------------------------------------------
(* Vocabulary of the properties *)

\* the address of the latest fetch, and the address behind it
FetchAddr == reads[1][1]
NextAddr == (FetchAddr + 1) % 65536

\* an iteration has run, so instr and reads describe an instruction
Executed == steps > 0

\* the value of a width-bit field as a signed number
Signed(x, width) == IF x >= 2 ^ (width - 1) THEN x - 2 ^ width ELSE x

\* the address offset bits behind the instruction fetched at FetchAddr
Target(width) == (NextAddr + Signed(instr % (2 ^ width), width)) % 65536

InstrOp == instr \div 4096
InstrDR == (instr \div 512) % 8
InstrBase == (instr \div 64) % 8
InstrVect == instr % 256

FlagDefining ==
    \/ InstrOp \in {OP_ADD, OP_AND, OP_NOT, OP_LD, OP_LDI, OP_LDR, OP_LEA}
    \/ InstrOp = OP_TRAP /\ InstrVect \in {TRAP_GETC, TRAP_IN}

DestReg == IF InstrOp = OP_TRAP THEN R_R0 ELSE InstrDR

\* the flag of a 16-bit value read as two's complement
SignFlag(v) == IF v = 0 THEN FL_ZRO ELSE IF v >= 32768 THEN FL_NEG ELSE FL_POS

----------------------------------------------------------------------------
(* Properties *)

\* C1: after a flag-defining instruction (ADD, AND, NOT, LD, LDI, LDR, LEA,
\* TRAP GETC, TRAP IN) the condition register is one of FL_NEG, FL_ZRO,
\* FL_POS, and it is the sign of the value now in the destination register.
C1_FlagsMatchDest ==
    (Executed /\ FlagDefining) =>
        /\ registers[R_COND] \in {FL_NEG, FL_ZRO, FL_POS}
        /\ registers[R_COND] = SignFlag(registers[DestReg])

\* a load has put a word with bit 15 set into its destination register
C1_Witness ==
    /\ Executed
    /\ InstrOp = OP_LDI
    /\ registers[DestReg] >= 32768
    /\ registers[R_COND] = FL_NEG

\* C2: in every state from the entry of the loop on, the condition register
\* holds exactly one of FL_NEG, FL_ZRO, FL_POS.
C2_OneFlag ==
    registers[R_COND] \in {FL_NEG, FL_ZRO, FL_POS}

\* with a negative word in R0, a later instruction has set the flag to
\* FL_POS
C2_Witness ==
    /\ steps >= 2
    /\ FlagDefining
    /\ registers[R_COND] = FL_POS
    /\ registers[R_R0] >= 32768

IllegalFetched == Executed /\ InstrOp \in {OP_RTI, OP_RES}

\* C3: when the fetched word has opcode RTI or reserved, the process is
\* aborted right then, which is not the way TRAP HALT ends the loop (running
\* is still 1, main has not returned), and no step follows: nothing of the
\* state changes any more.
C3_IllegalOpcodeAborts ==
    /\ [](IllegalFetched => (proc = "aborted" /\ running = 1))
    /\ [][IllegalFetched => UNCHANGED vars]_vars

\* an illegal opcode met behind other instructions
C3_Witness ==
    /\ IllegalFetched
    /\ steps >= 2
    /\ proc = "aborted"

HaltExecuted == Executed /\ InstrOp = OP_TRAP /\ InstrVect = TRAP_HALT

\* C4: after TRAP HALT the loop is left (running is 0, main returns), the PC
\* is the address behind the trap, which is what the handler saved in R7, and
\* no step follows: no fetch, no change of a register or of memory.
C4_HaltStays ==
    /\ [](HaltExecuted =>
            /\ proc = "exited"
            /\ running = 0
            /\ registers[R_PC] = NextAddr
            /\ registers[R_PC] = registers[R_R7])
    /\ [][HaltExecuted => UNCHANGED vars]_vars

\* a HALT trap executed behind other instructions
C4_Witness ==
    /\ HaltExecuted
    /\ steps >= 2
    /\ proc = "exited"

InstrLong == (instr \div 2048) % 2

\* C5: after JSR, JSRR or TRAP fetched at address A, R7 is (A + 1) mod 65536;
\* the link is stored before the transfer, so JSRR with base register 7 goes
\* to the link itself.
C5_LinkSaved ==
    (Executed /\ InstrOp \in {OP_JSR, OP_TRAP}) =>
        /\ registers[R_R7] = NextAddr
        /\ (InstrOp = OP_JSR /\ InstrLong = 0 /\ InstrBase = 7)
               => registers[R_PC] = NextAddr

\* JSRR through R7 has executed
C5_Witness ==
    /\ Executed
    /\ InstrOp = OP_JSR
    /\ InstrLong = 0
    /\ InstrBase = 7
    /\ registers[R_R7] = NextAddr

\* the branch of a BR word is taken: its mask names the current flag
BrTaken ==
    LET mask == (instr \div 512) % 8
    IN  \/ mask \div 4 = 1 /\ registers[R_COND] = FL_NEG
        \/ (mask \div 2) % 2 = 1 /\ registers[R_COND] = FL_ZRO
        \/ mask % 2 = 1 /\ registers[R_COND] = FL_POS

\* C6: the PC is incremented before the instruction executes: for an
\* instruction fetched at A, the address of a taken BR, of JSR, LD, LDI, LEA,
\* ST and STI is (A + 1 + offset) mod 65536, and an instruction that does not
\* transfer control leaves the PC at (A + 1) mod 65536.
C6_PcRelative ==
    Executed =>
        /\ InstrOp = OP_BR =>
               registers[R_PC] = IF BrTaken THEN Target(9) ELSE NextAddr
        /\ (InstrOp = OP_JSR /\ InstrLong = 1) => registers[R_PC] = Target(11)
        /\ InstrOp \in {OP_LD, OP_LDI, OP_STI} => reads[2][1] = Target(9)
        /\ InstrOp = OP_ST => writes[1][1] = Target(9)
        /\ InstrOp = OP_LEA => registers[InstrDR] = Target(9)
        /\ InstrOp \notin {OP_BR, OP_JMP, OP_JSR} => registers[R_PC] = NextAddr

\* LEA with offset -1 has produced the address of the LEA itself
C6_Witness ==
    /\ Executed
    /\ InstrOp = OP_LEA
    /\ instr % 512 = 511
    /\ registers[InstrDR] = FetchAddr

\* the latest iteration read the keyboard-status address
Polled == \E j \in DOMAIN reads : reads[j][1] = MR_KBSR

\* what the reads of the keyboard-data address in the latest iteration gave
KbdrReads == { reads[j][2] : j \in { k \in DOMAIN reads : reads[k][1] = MR_KBDR } }

\* a read of the status address: without pending input the high bit of the
\* status word is clear; with pending input it is set and one character is
\* taken from the input and stored in the data word
PollEffect ==
    Polled' =>
        IF staged' = <<>>
        THEN MemGet(memory', MR_KBSR) < 32768
        ELSE /\ MemGet(memory', MR_KBSR) >= 32768
             /\ nread' = nread + 1
             /\ MemGet(memory', MR_KBDR) = staged'[1]

\* C7 as stated: the poll acts as PollEffect says, and every read of the
\* data address behind a poll that staged a character returns that character
\* until the status address is read again.
C7_StagedUntilNextPoll ==
    [][ /\ PollEffect
        /\ (staged # <<>> /\ ~Polled') => KbdrReads' \subseteq {staged[1]} ]_vars

\* C7, amended: ... until the status address is read again or the program
\* stores to the data address.
C7_StagedUntilPollOrStore ==
    [][ /\ PollEffect
        /\ (staged # <<>> /\ ~kstored /\ ~Polled') => KbdrReads' \subseteq {staged[1]} ]_vars

\* a read of the data address has returned the character an earlier
\* iteration staged
C7_Witness ==
    /\ Executed
    /\ staged # <<>>
    /\ ~kstored
    /\ ~Polled
    /\ KbdrReads = {staged[1]}
    /\ nread = 1

\* the word stored at an address when the iteration starts; FALSE for the
\* storage behind the array as long as nothing is known of it
StoredIs(a, v) ==
    IF a < MEMORY_MAX THEN v = MemGet(memory, a)
    ELSE IF behind.kind = "cell" THEN v = behind.val
    ELSE IF behind.kind = "r0" THEN v = registers[R_R0]
    ELSE TRUE

\* C8: an iteration whose reads all go to addresses other than the status
\* address polls nothing: it takes no character from the input (unless it is
\* TRAP GETC or TRAP IN, which call getchar themselves), it changes no
\* memory word but those mem_write stores to, the status and data words
\* included, and each read returns the stored word.
C8_OtherReadsDoNotPoll ==
    [][ ~Polled' =>
          /\ nread' # nread =>
                 (instr' \div 4096 = OP_TRAP /\ instr' % 256 \in {TRAP_GETC, TRAP_IN})
          /\ \A a \in (DOMAIN memory) \cup (DOMAIN memory') :
                 MemGet(memory', a) # MemGet(memory, a)
                     => \E k \in DOMAIN writes' : writes'[k][1] = a
          /\ staged' = staged
          /\ \A j \in DOMAIN reads' : StoredIs(reads'[j][1], reads'[j][2]) ]_vars

\* the data address has been read with the status bit set and a character
\* staged; no input was taken by that iteration
C8_Witness ==
    /\ Executed
    /\ ~Polled
    /\ InstrOp = OP_LDI
    /\ reads[3][1] = MR_KBDR
    /\ MemGet(memory, MR_KBSR) >= 32768
    /\ nread = 1

\* C9 as stated: every fetch, read and write goes to a word inside the
\* memory array, for every address up to 0xFFFF, and the address behind
\* 0xFFFF is 0.
C9_AccessInsideMemory ==
    Executed =>
        /\ \A j \in DOMAIN reads : reads[j][1] \in 0..(MEMORY_MAX - 1)
        /\ \A j \in DOMAIN writes : writes[j][1] \in 0..(MEMORY_MAX - 1)
        /\ FetchAddr = 65535 => NextAddr = 0

\* C10 as stated: TRAP PUTS reads the words at R0, R0 + 1, ... taken modulo
\* 65536, all of them inside memory, and writes one character for each word
\* before the first zero word.
C10_PutsInsideMemory ==
    (Executed /\ InstrOp = OP_TRAP /\ InstrVect = TRAP_PUTS) =>
        /\ \A j \in DOMAIN walk :
               /\ walk[j] = (registers[R_R0] + j - 1) % 65536
               /\ walk[j] \in 0..(MEMORY_MAX - 1)
        /\ Len(walk) >= 1

\* the step runs a TRAP whose vector is none of the six of the switch
UnknownTrapStep ==
    /\ steps' = steps + 1
    /\ InstrOp' = OP_TRAP
    /\ InstrVect' \notin {TRAP_GETC, TRAP_OUT, TRAP_PUTS, TRAP_IN, TRAP_PUTSP, TRAP_HALT}

\* what both readings of C11 share: the flag, memory and the console output
\* are what they were, the PC is the address behind the trap and the loop
\* goes on
UnknownTrapFrame ==
    /\ \A r \in R_R0..(R_R7 - 1) : registers'[r] = registers[r]
    /\ registers'[R_COND] = registers[R_COND]
    /\ memory' = memory
    /\ stdout' = stdout
    /\ registers'[R_PC] = NextAddr'
    /\ proc' = "loop"
    /\ running' = 1

\* C11 as stated: a TRAP with a vector outside 0x20..0x25 leaves R0..R7, the
\* flag, memory and the console output exactly as they were, with the PC at
\* the next instruction and the machine still running.
C11_UnknownTrapNoEffect ==
    [][UnknownTrapStep => (UnknownTrapFrame /\ registers'[R_R7] = registers[R_R7])]_vars

\* C11, amended: a TRAP with a vector outside 0x20..0x25 leaves R0..R6, the
\* flag, memory and the console output exactly as they were, the PC is at
\* the next instruction, the machine is still running, and R7 holds the
\* address of the next instruction.
C11_UnknownTrapOnlyLinks ==
    [][UnknownTrapStep => (UnknownTrapFrame /\ registers'[R_R7] = NextAddr')]_vars

\* an unknown vector has run behind an instruction that loaded R0
C11_Witness ==
    /\ steps >= 2
    /\ InstrOp = OP_TRAP
    /\ InstrVect = 255
    /\ registers[R_R0] # 0
    /\ registers[R_R7] = NextAddr
    /\ proc = "loop"

\* the 3-bit mask of a BR and the flag have a bit in common
BrShares(mask, flag) ==
    \E b \in {FL_POS, FL_ZRO, FL_NEG} : (mask \div b) % 2 = 1 /\ (flag \div b) % 2 = 1

BrStep == steps' = steps + 1 /\ InstrOp' = OP_BR

\* C12: BR leaves the PC at the next instruction plus the sign-extended
\* offset9 if its mask has a bit in common with the flag the instruction
\* found, and at the next instruction otherwise; a mask of 000 never
\* branches and a mask of 111 always does.
C12_BranchIffMaskMeetsFlag ==
    [][BrStep =>
        /\ registers'[R_PC] =
               IF BrShares(InstrDR', registers[R_COND]) THEN Target(9)' ELSE NextAddr'
        /\ InstrDR' = 0 => registers'[R_PC] = NextAddr'
        /\ InstrDR' = 7 => registers'[R_PC] = Target(9)']_vars

\* a BR on zero alone was taken to an address that is not the next one, with
\* the flag at FL_ZRO
C12_Witness ==
    /\ Executed
    /\ InstrOp = OP_BR
    /\ InstrDR = FL_ZRO
    /\ registers[R_COND] = FL_ZRO
    /\ Target(9) # NextAddr
    /\ registers[R_PC] = Target(9)

PutspStep == steps' = steps + 1 /\ InstrOp' = OP_TRAP /\ InstrVect' = TRAP_PUTSP

\* the characters of packed words, up to the first zero word: the low byte,
\* then the high byte when it is not zero
RECURSIVE PackedText(_)
PackedText(ws) ==
    IF ws = <<>> \/ Head(ws) = 0 THEN <<>>
    ELSE <<Head(ws) % 256>>
         \o (IF Head(ws) \div 256 # 0 THEN <<Head(ws) \div 256>> ELSE <<>>)
         \o PackedText(Tail(ws))

\* C13: TRAP PUTSP goes through the successive words from the one R0 points
\* at (inside the array these are the words of memory) to the first zero
\* word, and appends to the console, for each word before that zero word,
\* its low byte and then its high byte when that is not zero; it writes
\* nothing for the zero word and reads no word behind it.
C13_PutspLowThenHigh ==
    [][PutspStep =>
        /\ Len(walk') >= 1 /\ Len(seen') = Len(walk')
        /\ \A j \in DOMAIN walk' :
               /\ walk'[j] = registers[R_R0] + j - 1
               /\ walk'[j] < MEMORY_MAX => seen'[j] = MemGet(memory, walk'[j])
               /\ seen'[j] = 0 <=> j = Len(seen')
        /\ stdout' = stdout \o PackedText(seen')]_vars

\* PUTSP has written a word of two characters and, for a word with a zero
\* high byte, one character
C13_Witness ==
    /\ Executed
    /\ InstrOp = OP_TRAP /\ InstrVect = TRAP_PUTSP
    /\ Len(seen) = 4
    /\ seen[1] \div 256 # 0 /\ seen[1] % 256 # 0
    /\ seen[3] \div 256 = 0 /\ seen[3] # 0
    /\ Len(stdout) = 5

\* a word with a zero low byte and a high byte that is not zero
ZeroLow(w) == w % 256 = 0 /\ w \div 256 # 0

\* C14 as stated: when PUTSP meets a word with a zero low byte and a nonzero
\* high byte, the output ends there: what was written is the text of the
\* words before it (with or without a zero byte behind it), and neither the
\* high byte of that word nor a character of a later word.
C14_ZeroLowByteTruncates ==
    [][PutspStep =>
        \A j \in DOMAIN seen' :
            ZeroLow(seen'[j]) =>
                \/ stdout' = stdout \o PackedText(SubSeq(seen', 1, j - 1))
                \/ stdout' = stdout \o PackedText(SubSeq(seen', 1, j - 1)) \o <<0>>]_vars

\* C14, amended: a word with a zero low byte and a nonzero high byte does not
\* end the output of PUTSP: a zero byte is written for it, then its high
\* byte, and then the text of the words behind it up to the first zero word.
C14_ZeroLowByteWritten ==
    [][PutspStep =>
        \A j \in DOMAIN seen' :
            ZeroLow(seen'[j]) =>
                stdout' = stdout \o PackedText(SubSeq(seen', 1, j - 1))
                                 \o <<0, seen'[j] \div 256>>
                                 \o PackedText(SubSeq(seen', j + 1, Len(seen')))]_vars

\* PUTSP met such a word as the second of three and wrote the character of
\* the third
C14_Witness ==
    /\ Executed
    /\ InstrOp = OP_TRAP /\ InstrVect = TRAP_PUTSP
    /\ Len(seen) = 4
    /\ ZeroLow(seen[2])
    /\ seen[3] # 0
    /\ stdout[Len(stdout)] = seen[3] % 256
    /\ stdout[Len(stdout) - 1] = seen[2] \div 256

\* C18: an instruction that defines no flag (BR, JMP, JSR, JSRR, ST, STI,
\* STR, TRAP OUT, PUTS, PUTSP, HALT, a TRAP with an unknown vector) leaves the
\* condition register as it found it; with the flag at FL_ZRO when the loop
\* starts and set from the result by every flag-defining instruction, the
\* flag is always the sign of the latest flag-defining result, or FL_ZRO when
\* there was none.
C18_FlagKept ==
    /\ registers[R_COND] = FL_ZRO
    /\ [][steps' = steps + 1 =>
            IF FlagDefining'
            THEN registers'[R_COND] = SignFlag(registers'[DestReg'])
            ELSE registers'[R_COND] = registers[R_COND]]_vars

\* a store has run behind a load of a negative word and before a TRAP OUT,
\* and the flag is still FL_NEG
C18_Witness ==
    /\ steps = 3
    /\ InstrOp = OP_TRAP /\ InstrVect = TRAP_OUT
    /\ Len(stdout) = 1
    /\ registers[R_COND] = FL_NEG
    /\ registers[1] >= 32768

JsrrStep == steps' = steps + 1 /\ InstrOp' = OP_JSR /\ InstrLong' = 0

\* C19 as stated: JSRR with base register b leaves in the PC the value that
\* register b held before the instruction, for every b in 0..7.
C19_JsrrToOldBase ==
    [][JsrrStep => registers'[R_PC] = registers[InstrBase']]_vars

\* C17 as stated: when SIGINT arrives after the handler was installed, the
\* process ends with the status of exit(-2), and the terminal is then in the
\* mode it had when the program started.
C17_InterruptRestoresStartMode ==
    proc = "interrupted" => (tty = tty_start /\ status = Exited(-2))

\* buffering was disabled (the process is past tcsetattr) and the process
\* ends in this step
EndsAfterDisabling ==
    /\ proc \in {"raw", "loop"}
    /\ proc' \in {"exited", "aborted", "interrupted"}

\* C20 as stated: when the process ends after input buffering was disabled,
\* by TRAP HALT, by an illegal opcode or by SIGINT, the terminal is then in
\* the mode it had when the program started.
C20_EveryExitRestores ==
    [][EndsAfterDisabling => tty' = tty_start]_vars

\* bit b of a word
Bit(w, b) == (w \div 2 ^ b) % 2

\* C15: for the widths 5, 6, 9, 11 and every x of that many bits,
\* sign_extend(x, width) is a 16-bit word, its bits width..15 all equal bit
\* width - 1 of x, and its low width bits are x.
C15_SignExtend ==
    ret # <<>> /\ arg \in SignArgs =>
        /\ ret[1] \in 0..65535
        /\ \A b \in arg.bit_count..15 : Bit(ret[1], b) = Bit(arg.x, arg.bit_count - 1)
        /\ ret[1] % 2 ^ arg.bit_count = arg.x

\* sign_extend was applied to the most negative 9-bit number
C15_Witness ==
    /\ arg \in SignArgs
    /\ arg.bit_count = 9 /\ arg.x = 256
    /\ ret = <<65280>>

\* C16: from the same state, ADD (AND) with imm5 = i and ADD (AND) of the
\* register sr2 that holds i sign-extended from 5 bits leave the same value
\* in dr and the same flag, also when sr1 or sr2 is dr.
C16_ImmediateAsRegister ==
    ret # <<>> /\ arg \in AluArgs =>
        /\ ret[1].imm[arg.dr] = ret[1].reg[arg.dr]
        /\ ret[1].imm[R_COND] = ret[1].reg[R_COND]

\* ADD of a negative immediate was applied with dr, sr1 and sr2 the same
\* register, and the sum wrapped
C16_Witness ==
    /\ arg \in AluArgs
    /\ ret # <<>>
    /\ arg.op = OP_ADD /\ arg.imm5 = 31
    /\ arg.dr = arg.sr1 /\ arg.dr = arg.sr2
    /\ ret[1].imm[arg.dr] = 65534
    /\ ret[1].imm[R_COND] = FL_NEG

====
